---- MODULE Spec2Model ----
(***************************************************************************)
(* Translation marketplace: the project, bid, escrow-transaction and       *)
(* review lifecycle of the Express + Prisma backend.                       *)
(*                                                                         *)
(* The database is the only shared state.  Every request handler is a      *)
(* sequence of awaited database calls; another request may run between two *)
(* awaits, so every awaited call is one action and a request that is       *)
(* between two awaits occupies a slot of reqs.  The first action of a      *)
(* handler is the arrival of the request, which takes a free slot,         *)
(* together with its first database call.  A prisma.$transaction block     *)
(* commits or rolls back as a whole and is one action.                     *)
(*                                                                         *)
(* Every action has a last parameter k, the HTTP status it answers with    *)
(* (0: the handler is suspended at its next await and has not answered).   *)
(***************************************************************************)
EXTENDS Integers, Sequences, FiniteSets, TLC

\* Bounds of the model: the sizes of the bid, transaction and review tables.
MaxBids == 2
MaxTx == 2
MaxReviews == 3

\* Accounts (role is fixed at registration and never updated).
Clients == {"c1"}
Freelancers == {"f1", "f2"}
UserIds == Clients \cup Freelancers

\* Request inputs.
SubmitInputs == {<<"c1", 450>>, <<"f1", 450>>, <<"f2", 480>>}  \* caller, bidAmount
ConfirmInputs == {<<"c1", "f2">>, <<"f1", "f2">>}              \* caller, freelancerId
ReviewInputs == {<<"c1", "f1", 5>>, <<"c1", "c1", 5>>, <<"f1", "c1", 4>>, <<"f2", "c1", 5>>}
                                             \* caller, revieweeId, rating
EditInputs == {<<"c1", 2>>, <<"f1", 2>>, <<"f1", 0>>}
                                             \* caller, rating (0: no rating in the body)
RegisterInputs == {<<"c1", "CLIENT", {"en"}>>, <<"f1", "FREELANCER", {}>>,
                   <<"f1", "FREELANCER", {"en"}>>, <<"f2", "FREELANCER", {"en"}>>}
                                             \* account, role, languages ({}: none sent)
ProfileInputs == {<<"c1", "[\"en\"]">>, <<"f1", "">>, <<"f1", "[\"en\"]">>, <<"f2", "[]">>}
                                             \* caller, languages text ("": none sent)
IntentAmounts == {500}                       \* paymentIntent.amount / 100
IntentStatuses == {"succeeded", "requires_payment_method"}
ProjectStatuses == {"POSTED", "IN_PROGRESS", "COMPLETED", "PAID", "CANCELLED"}
Codes == {0, 200, 201, 400, 401, 403, 404, 500}

\* Request slots: handlers that are between two awaits.
Slots == {"r1", "r2"}

VARIABLES
    users,          \* user table: id -> [role, rating, languages]; rating in tenths
                    \* (47 is 4.7); role "" when the account is not registered
    projects,       \* project table: sequence of [clientId, status]
    bids,           \* bid table: sequence of [projectId, freelancerId, bidAmount, status]
    transactions,   \* transaction table: sequence of [projectId, clientId, freelancerId, amount, status]
    reviews,        \* review table: sequence of [projectId, reviewerId, revieweeId, rating]
    reqs,           \* slot -> the handler suspended at an await (or Idle)
    last,           \* the response sent by the step just taken (or NoResp)
    settled         \* history: the transactions a release or refund answered 200 for

vars == <<users, projects, bids, transactions, reviews, reqs, last, settled>>
db == <<users, projects, bids, transactions, reviews>>

Idle == [op |-> "idle", pc |-> "", caller |-> "", pid |-> 0, id |-> 0,
         amount |-> 0, status |-> "", rival |-> FALSE,
         revieweeId |-> "", rating |-> 0, averageRating |-> 0,
         languages |-> {}]
NoResp == [op |-> "none", caller |-> "", pid |-> 0, id |-> 0, code |-> 0]

\* The model follows the rows of one project.
ProjectIds == {1}
BidIds == 1..MaxBids
TxIds == 1..MaxTx
ReviewIds == 1..MaxReviews

ExistingProjects == DOMAIN projects
ExistingBids == DOMAIN bids
ExistingTxs == DOMAIN transactions
ExistingReviews == DOMAIN reviews

BidsOf(p) == {b \in ExistingBids : bids[b].projectId = p}
TxsOf(p) == {t \in ExistingTxs : transactions[t].projectId = p}
AcceptedOf(p) == {b \in BidsOf(p) : bids[b].status = "ACCEPTED"}

InFlight(op) == {r \in Slots : reqs[r].op = op}

\* The handler in slot r answers (k # 0) or stays suspended as rec (k = 0).
Continue(r, k, rec) ==
    reqs' = [reqs EXCEPT ![r] = IF k = 0 THEN rec ELSE Idle]

Registered ==
    [u \in UserIds |-> [role |-> IF u \in Clients THEN "CLIENT" ELSE "FREELANCER",
                        rating |-> 0,
                        languages |-> IF u \in Clients THEN {} ELSE {"en"}]]

Init ==
    /\ users = Registered
    /\ projects = <<>>
    /\ bids = <<>>
    /\ transactions = <<>>
    /\ reviews = <<>>
    /\ reqs = [r \in Slots |-> Idle]
    /\ last = NoResp
    /\ settled = {}

requireRole(caller, roles) == users[caller].role \in roles

(***************************************************************************)
(* POST /projects  (clients only)                                          *)
(***************************************************************************)
CreateProject(r, caller, k) ==
    /\ reqs[r] = Idle
    /\ Len(projects) < Cardinality(ProjectIds)
    /\ k = IF requireRole(caller, {"CLIENT"}) THEN 201 ELSE 403
    /\ projects' = IF k = 201
                   THEN Append(projects, [clientId |-> caller, status |-> "POSTED"])
                   ELSE projects
    /\ UNCHANGED <<users, bids, transactions, reviews, reqs>>

(***************************************************************************)
(* POST /bids  (freelancers only)                                          *)
(***************************************************************************)
\* Mutant of SubmitCheck: the role and ownership guards are missing.
SubmitCheck_NoOwnerGuard(caller, pid) ==
    IF pid \notin ExistingProjects THEN 404
    ELSE IF projects[pid].status # "POSTED" THEN 400
    ELSE 0

\* The checks before the existing-bid lookup; 0 when all of them pass.
SubmitCheck(caller, pid) ==
    IF ~requireRole(caller, {"FREELANCER"}) THEN 403
    ELSE IF pid \notin ExistingProjects THEN 404
    ELSE IF projects[pid].status # "POSTED" THEN 400
    ELSE IF projects[pid].clientId = caller THEN 400
    ELSE 0

\* await prisma.project.findUnique, then the status and ownership checks.
SubmitFindProject(r, caller, pid, amount, k) ==
    /\ reqs[r] = Idle
    /\ Len(bids) + Cardinality(InFlight("submit")) < MaxBids
    /\ k = SubmitCheck(caller, pid)
    /\ Continue(r, k, [Idle EXCEPT !.op = "submit", !.pc = "findBid",
                                   !.caller = caller, !.pid = pid, !.amount = amount])
    /\ UNCHANGED db

\* The existing-bid lookup: where {projectId, freelancerId}.
ExistingBid(pid, caller) ==
    {b \in ExistingBids : bids[b].projectId = pid /\ bids[b].freelancerId = caller}

\* await prisma.bid.findFirst.
SubmitFindBid(r, k) ==
    /\ reqs[r].op = "submit" /\ reqs[r].pc = "findBid"
    /\ k = IF ExistingBid(reqs[r].pid, reqs[r].caller) # {} THEN 400 ELSE 0
    /\ Continue(r, k, [reqs[r] EXCEPT !.pc = "create"])
    /\ UNCHANGED db

\* await prisma.bid.create: status takes the column default PENDING.
SubmitCreate(r, k) ==
    /\ reqs[r].op = "submit" /\ reqs[r].pc = "create"
    /\ Len(bids) < MaxBids
    /\ k = 201
    /\ bids' = Append(bids, [projectId |-> reqs[r].pid,
                             freelancerId |-> reqs[r].caller,
                             bidAmount |-> reqs[r].amount,
                             status |-> "PENDING"])
    /\ Continue(r, k, Idle)
    /\ UNCHANGED <<users, projects, transactions, reviews>>

(***************************************************************************)
(* PUT /bids/:id/accept                                                    *)
(***************************************************************************)
\* Mutant of AcceptCheck: the project's status is not checked.
AcceptCheck_NoStatusCheck(caller, b) ==
    IF b \notin ExistingBids THEN 404
    ELSE IF projects[bids[b].projectId].clientId # caller THEN 403
    ELSE 0

\* The checks after prisma.bid.findUnique({include: project}).
AcceptCheck(caller, b) ==
    IF b \notin ExistingBids THEN 404
    ELSE IF projects[bids[b].projectId].clientId # caller THEN 403
    ELSE IF projects[bids[b].projectId].status # "POSTED" THEN 400
    ELSE 0

AcceptFindBid(r, caller, b, k) ==
    /\ reqs[r] = Idle
    /\ k = AcceptCheck(caller, b)
    /\ Continue(r, k, [Idle EXCEPT !.op = "accept", !.pc = "transaction",
                                   !.caller = caller, !.pid = bids[b].projectId,
                                   !.id = b])
    /\ UNCHANGED db

\* Mutant of projectId_clientId: the table has no such unique key.
projectId_clientId_NoKey(p, c) == {}

\* The compound unique key projectId_clientId of the transaction table: the
\* rows with that pair (at most one; a second cannot be inserted).
projectId_clientId(p, c) ==
    {t \in ExistingTxs : transactions[t].projectId = p /\ transactions[t].clientId = c}

\* tx.bid.update and tx.bid.updateMany of the accept block.
AcceptedBids(b) ==
    [x \in DOMAIN bids |->
        IF x = b THEN [bids[x] EXCEPT !.status = "ACCEPTED"]
        ELSE IF bids[x].projectId = bids[b].projectId /\ bids[x].status = "PENDING"
        THEN [bids[x] EXCEPT !.status = "REJECTED"]
        ELSE bids[x]]

\* The row of tx.transaction.create (status: column default PENDING).
EscrowOf(b) ==
    [projectId |-> bids[b].projectId,
     clientId |-> projects[bids[b].projectId].clientId,
     freelancerId |-> bids[b].freelancerId,
     amount |-> bids[b].bidAmount,
     status |-> "PENDING"]

\* Mutant of AcceptCommits: the insert never throws.
AcceptCommits_Always(b) == TRUE

\* Whether the accept block commits: its last statement, the insert, throws on
\* a duplicate (projectId, clientId) and the block is rolled back.
AcceptCommits(b) ==
    projectId_clientId(bids[b].projectId, projects[bids[b].projectId].clientId) = {}

\* Mutant of AcceptWrites: the writes are not in one transaction, so those
\* before the failed insert stay.
AcceptWrites_NoRollback(b, k) ==
    <<[projects EXCEPT ![bids[b].projectId].status = "IN_PROGRESS"],
      AcceptedBids(b),
      IF k = 200 THEN Append(transactions, EscrowOf(b)) ELSE transactions>>

\* The project, bid and transaction tables after the accept block of bid b
\* answered k: the four writes on a commit, nothing on a rollback.
AcceptWrites(b, k) ==
    IF k = 200
    THEN <<[projects EXCEPT ![bids[b].projectId].status = "IN_PROGRESS"],
           AcceptedBids(b),
           Append(transactions, EscrowOf(b))>>
    ELSE <<projects, bids, transactions>>

\* await prisma.$transaction(...): the four writes, all or nothing.
\* rival records, in another accept of the same project suspended before its
\* own block, that this accept of a different bid has committed.
AcceptTransaction(r, k) ==
    /\ reqs[r].op = "accept" /\ reqs[r].pc = "transaction"
    /\ k = IF AcceptCommits(reqs[r].id) THEN 200 ELSE 500
    /\ k = 200 => Len(transactions) < MaxTx
    /\ projects' = AcceptWrites(reqs[r].id, k)[1]
    /\ bids' = AcceptWrites(reqs[r].id, k)[2]
    /\ transactions' = AcceptWrites(reqs[r].id, k)[3]
    /\ UNCHANGED <<users, reviews>>
    /\ reqs' = [x \in Slots |->
                  IF x = r THEN Idle
                  ELSE IF k = 200 /\ reqs[x].op = "accept"
                          /\ reqs[x].pid = reqs[r].pid /\ reqs[x].id # reqs[r].id
                  THEN [reqs[x] EXCEPT !.rival = TRUE]
                  ELSE reqs[x]]

(***************************************************************************)
(* PUT /bids/:id/reject                                                    *)
(***************************************************************************)
\* Mutant of RejectCheck: the bid's status is not checked.
RejectCheck_NoStatusCheck(caller, b) ==
    IF b \notin ExistingBids THEN 404
    ELSE IF projects[bids[b].projectId].clientId # caller THEN 403
    ELSE 0

\* The checks after prisma.bid.findUnique({include: project}).
RejectCheck(caller, b) ==
    IF b \notin ExistingBids THEN 404
    ELSE IF projects[bids[b].projectId].clientId # caller THEN 403
    ELSE IF bids[b].status # "PENDING" THEN 400
    ELSE 0

RejectFindBid(r, caller, b, k) ==
    /\ reqs[r] = Idle
    /\ k = RejectCheck(caller, b)
    /\ Continue(r, k, [Idle EXCEPT !.op = "reject", !.pc = "update",
                                   !.caller = caller, !.pid = bids[b].projectId,
                                   !.id = b])
    /\ UNCHANGED db

\* await prisma.bid.update({status: REJECTED}).
RejectUpdate(r, k) ==
    /\ reqs[r].op = "reject" /\ reqs[r].pc = "update"
    /\ k = 200
    /\ bids' = [bids EXCEPT ![reqs[r].id].status = "REJECTED"]
    /\ Continue(r, k, Idle)
    /\ UNCHANGED <<users, projects, transactions, reviews>>

(***************************************************************************)
(* PUT /projects/:id                                                       *)
(***************************************************************************)
UpdateCheck(caller, pid) ==
    IF pid \notin ExistingProjects THEN 404
    ELSE IF projects[pid].clientId # caller THEN 403
    ELSE 0

\* status = "" stands for a body without the status field.
UpdateFindProject(r, caller, pid, status, k) ==
    /\ reqs[r] = Idle
    /\ k = UpdateCheck(caller, pid)
    /\ Continue(r, k, [Idle EXCEPT !.op = "update", !.pc = "update",
                                   !.caller = caller, !.pid = pid, !.status = status])
    /\ UNCHANGED db

\* await prisma.project.update({data: updateData}).
UpdateProject(r, k) ==
    /\ reqs[r].op = "update" /\ reqs[r].pc = "update"
    /\ k = 200
    /\ projects' = IF reqs[r].status # ""
                   THEN [projects EXCEPT ![reqs[r].pid].status = reqs[r].status]
                   ELSE projects
    /\ Continue(r, k, Idle)
    /\ UNCHANGED <<users, bids, transactions, reviews>>

(***************************************************************************)
(* POST /transactions/create-payment-intent                                *)
(***************************************************************************)
\* The checks after prisma.project.findUnique({include: transactions}); the
\* payment processor then creates the intent and no table is written.
CreateIntentCheck(caller, pid) ==
    IF pid \notin ExistingProjects THEN 404
    ELSE IF projects[pid].clientId # caller THEN 403
    ELSE IF TxsOf(pid) # {} THEN 400
    ELSE 200

CreateIntent(r, caller, pid, k) ==
    /\ reqs[r] = Idle
    /\ k = CreateIntentCheck(caller, pid)
    /\ UNCHANGED <<db, reqs>>

(***************************************************************************)
(* POST /transactions/confirm-payment                                      *)
(***************************************************************************)
\* prisma.transaction.upsert on the key (projectId, clientId = caller): the
\* update branch writes the status only, the create branch inserts a row.
Upsert(caller, pid, freelancerId, amount) ==
    IF projectId_clientId(pid, caller) # {}
    THEN [t \in DOMAIN transactions |->
            IF t \in projectId_clientId(pid, caller)
            THEN [transactions[t] EXCEPT !.status = "PENDING"]
            ELSE transactions[t]]
    ELSE Append(transactions, [projectId |-> pid,
                               clientId |-> caller,
                               freelancerId |-> freelancerId,
                               amount |-> amount,
                               status |-> "PENDING"])

\* The processor reports the intent (its status and amount are inputs: the
\* intent is looked up by the id the caller sends), then the upsert.  The
\* lookup reads no table, so the handler is one step on the database.  An
\* insert that names a project that does not exist violates the foreign key.
ConfirmCheck(pid, intentStatus) ==
    IF intentStatus # "succeeded" THEN 400
    ELSE IF pid \notin ExistingProjects THEN 500
    ELSE 200

ConfirmPayment(r, caller, pid, freelancerId, intentStatus, amount, k) ==
    /\ reqs[r] = Idle
    /\ Len(transactions) < MaxTx \/ projectId_clientId(pid, caller) # {}
    /\ k = ConfirmCheck(pid, intentStatus)
    /\ transactions' = IF k = 200
                       THEN Upsert(caller, pid, freelancerId, amount)
                       ELSE transactions
    /\ UNCHANGED <<users, projects, bids, reviews, reqs>>

(***************************************************************************)
(* POST /transactions/:id/release and /refund                              *)
(***************************************************************************)
\* The checks after prisma.transaction.findUnique, the same in both handlers.
SettleCheck(caller, t) ==
    IF t \notin ExistingTxs THEN 404
    ELSE IF transactions[t].clientId # caller THEN 403
    ELSE IF transactions[t].status # "PENDING" THEN 400
    ELSE 0

ReleaseFind(r, caller, t, k) ==
    /\ reqs[r] = Idle
    /\ k = SettleCheck(caller, t)
    /\ Continue(r, k, [Idle EXCEPT !.op = "release", !.pc = "updateTransaction",
                                   !.caller = caller,
                                   !.pid = transactions[t].projectId, !.id = t])
    /\ UNCHANGED db

\* await prisma.transaction.update({status: RELEASED}).
ReleaseUpdateTransaction(r, k) ==
    /\ reqs[r].op = "release" /\ reqs[r].pc = "updateTransaction"
    /\ k = 0
    /\ transactions' = [transactions EXCEPT ![reqs[r].id].status = "RELEASED"]
    /\ Continue(r, k, [reqs[r] EXCEPT !.pc = "updateProject"])
    /\ UNCHANGED <<users, projects, bids, reviews>>

\* await prisma.project.update({status: PAID}).
ReleaseUpdateProject(r, k) ==
    /\ reqs[r].op = "release" /\ reqs[r].pc = "updateProject"
    /\ k = 200
    /\ projects' = [projects EXCEPT ![reqs[r].pid].status = "PAID"]
    /\ Continue(r, k, Idle)
    /\ UNCHANGED <<users, bids, transactions, reviews>>

RefundFind(r, caller, t, k) ==
    /\ reqs[r] = Idle
    /\ k = SettleCheck(caller, t)
    /\ Continue(r, k, [Idle EXCEPT !.op = "refund", !.pc = "updateTransaction",
                                   !.caller = caller,
                                   !.pid = transactions[t].projectId, !.id = t])
    /\ UNCHANGED db

\* await prisma.transaction.update({status: REFUNDED}).
RefundUpdateTransaction(r, k) ==
    /\ reqs[r].op = "refund" /\ reqs[r].pc = "updateTransaction"
    /\ k = 0
    /\ transactions' = [transactions EXCEPT ![reqs[r].id].status = "REFUNDED"]
    /\ Continue(r, k, [reqs[r] EXCEPT !.pc = "updateProject"])
    /\ UNCHANGED <<users, projects, bids, reviews>>

\* await prisma.project.update({status: CANCELLED}).
RefundUpdateProject(r, k) ==
    /\ reqs[r].op = "refund" /\ reqs[r].pc = "updateProject"
    /\ k = 200
    /\ projects' = [projects EXCEPT ![reqs[r].pid].status = "CANCELLED"]
    /\ Continue(r, k, Idle)
    /\ UNCHANGED <<users, bids, transactions, reviews>>

(***************************************************************************)
(* POST /reviews                                                           *)
(***************************************************************************)
\* The checks after prisma.project.findUnique({include: ACCEPTED bids}): the
\* status first, then the caller (client or accepted freelancer).
ReviewCheck(caller, pid) ==
    IF pid \notin ExistingProjects THEN 404
    ELSE IF projects[pid].status \notin {"PAID", "COMPLETED"} THEN 400
    ELSE IF projects[pid].clientId # caller
            /\ \A b \in AcceptedOf(pid) : bids[b].freelancerId # caller THEN 403
    ELSE 0

ReviewFindProject(r, caller, pid, revieweeId, rating, k) ==
    /\ reqs[r] = Idle
    /\ Len(reviews) + Cardinality(InFlight("review")) < MaxReviews
    /\ k = ReviewCheck(caller, pid)
    /\ Continue(r, k, [Idle EXCEPT !.op = "review", !.pc = "findReview",
                                   !.caller = caller, !.pid = pid,
                                   !.revieweeId = revieweeId, !.rating = rating])
    /\ UNCHANGED db

\* The existing-review lookup: where {projectId, reviewerId, revieweeId}.
ExistingReview(pid, reviewerId, revieweeId) ==
    {v \in ExistingReviews : /\ reviews[v].projectId = pid
                             /\ reviews[v].reviewerId = reviewerId
                             /\ reviews[v].revieweeId = revieweeId}

\* await prisma.review.findFirst.
ReviewFindReview(r, k) ==
    /\ reqs[r].op = "review" /\ reqs[r].pc = "findReview"
    /\ k = IF ExistingReview(reqs[r].pid, reqs[r].caller, reqs[r].revieweeId) # {}
           THEN 400 ELSE 0
    /\ Continue(r, k, [reqs[r] EXCEPT !.pc = "create"])
    /\ UNCHANGED db

\* await prisma.review.create.
ReviewCreate(r, k) ==
    /\ reqs[r].op = "review" /\ reqs[r].pc = "create"
    /\ Len(reviews) < MaxReviews
    /\ k = 0
    /\ reviews' = Append(reviews, [projectId |-> reqs[r].pid,
                                   reviewerId |-> reqs[r].caller,
                                   revieweeId |-> reqs[r].revieweeId,
                                   rating |-> reqs[r].rating])
    /\ Continue(r, k, [reqs[r] EXCEPT !.pc = "findMany"])
    /\ UNCHANGED <<users, projects, bids, transactions>>

\* The sum of the ratings of the reviews in vs.
RECURSIVE SumRatings(_)
SumRatings(vs) ==
    IF vs = {} THEN 0
    ELSE LET v == CHOOSE x \in vs : TRUE
         IN reviews[v].rating + SumRatings(vs \ {v})

\* The reviews a user has received: findMany where {revieweeId}.
userReviews(revieweeId) ==
    {v \in ExistingReviews : reviews[v].revieweeId = revieweeId}

\* Mutant of RoundedMean: the mean is cut to one decimal, not rounded.
RoundedMean_Truncated(sum, n) == (10 * sum) \div n

\* Math.round(sum / n * 10) / 10 in tenths; Math.round rounds a half up.
\* (For n up to 4 the quotient times ten is exact in a double whenever its
\* fraction is one half, so the integer form agrees with the float.)
RoundedMean(sum, n) == (20 * sum + n) \div (2 * n)

\* await prisma.review.findMany, then the mean of what it returned.
ReviewFindMany(r, k) ==
    /\ reqs[r].op = "review" /\ reqs[r].pc = "findMany"
    /\ k = 0
    /\ Continue(r, k, [reqs[r] EXCEPT
            !.pc = "updateUser",
            !.averageRating =
                RoundedMean(SumRatings(userReviews(reqs[r].revieweeId)),
                            Cardinality(userReviews(reqs[r].revieweeId)))])
    /\ UNCHANGED db

\* await prisma.user.update({rating}).
ReviewUpdateUser(r, k) ==
    /\ reqs[r].op = "review" /\ reqs[r].pc = "updateUser"
    /\ k = 201
    /\ users' = [users EXCEPT ![reqs[r].revieweeId].rating = reqs[r].averageRating]
    /\ Continue(r, k, Idle)
    /\ UNCHANGED <<projects, bids, transactions, reviews>>

(***************************************************************************)
(* PUT /reviews/:id                                                        *)
(***************************************************************************)
\* The checks after prisma.review.findUnique.
EditCheck(caller, v) ==
    IF v \notin ExistingReviews THEN 404
    ELSE IF reviews[v].reviewerId # caller THEN 403
    ELSE 0

EditFind(r, caller, v, rating, k) ==
    /\ reqs[r] = Idle
    /\ k = EditCheck(caller, v)
    /\ Continue(r, k, [Idle EXCEPT !.op = "edit", !.pc = "update",
                                   !.caller = caller, !.id = v,
                                   !.pid = reviews[v].projectId,
                                   !.revieweeId = reviews[v].revieweeId,
                                   !.rating = rating])
    /\ UNCHANGED db

\* await prisma.review.update({data: updateData}); without a rating in the
\* body the handler answers here.
EditUpdate(r, k) ==
    /\ reqs[r].op = "edit" /\ reqs[r].pc = "update"
    /\ k = IF reqs[r].rating # 0 THEN 0 ELSE 200
    /\ reviews' = IF reqs[r].rating # 0
                  THEN [reviews EXCEPT ![reqs[r].id].rating = reqs[r].rating]
                  ELSE reviews
    /\ Continue(r, k, [reqs[r] EXCEPT !.pc = "findMany"])
    /\ UNCHANGED <<users, projects, bids, transactions>>

\* await prisma.review.findMany({where: {revieweeId: review.revieweeId}}).
EditFindMany(r, k) ==
    /\ reqs[r].op = "edit" /\ reqs[r].pc = "findMany"
    /\ k = 0
    /\ Continue(r, k, [reqs[r] EXCEPT
            !.pc = "updateUser",
            !.averageRating =
                RoundedMean(SumRatings(userReviews(reqs[r].revieweeId)),
                            Cardinality(userReviews(reqs[r].revieweeId)))])
    /\ UNCHANGED db

\* await prisma.user.update({rating}).
EditUpdateUser(r, k) ==
    /\ reqs[r].op = "edit" /\ reqs[r].pc = "updateUser"
    /\ k = 200
    /\ users' = [users EXCEPT ![reqs[r].revieweeId].rating = reqs[r].averageRating]
    /\ Continue(r, k, Idle)
    /\ UNCHANGED <<projects, bids, transactions, reviews>>

(***************************************************************************)
(* POST /auth/register.  The account's email is its identity in the model. *)
(***************************************************************************)
\* await prisma.user.findUnique({email}).
RegisterFind(r, u, role, languages, k) ==
    /\ reqs[r] = Idle
    /\ k = IF users[u].role # "" THEN 400 ELSE 0
    /\ Continue(r, k, [Idle EXCEPT !.op = "register", !.pc = "create", !.caller = u,
                                   !.status = role, !.languages = languages])
    /\ UNCHANGED db

\* await bcrypt.hash, await prisma.user.create: a client's languages are
\* dropped, a freelancer's are stored as sent ([] when none were sent).
RegisterCreate(r, k) ==
    /\ reqs[r].op = "register" /\ reqs[r].pc = "create"
    /\ k = IF users[reqs[r].caller].role # "" THEN 500 ELSE 201
    /\ users' = IF k = 201
                THEN [users EXCEPT ![reqs[r].caller] =
                         [role |-> reqs[r].status,
                          rating |-> 0,
                          languages |-> IF reqs[r].status = "FREELANCER"
                                        THEN reqs[r].languages ELSE {}]]
                ELSE users
    /\ Continue(r, k, Idle)
    /\ UNCHANGED <<projects, bids, transactions, reviews>>

(***************************************************************************)
(* PUT /users/profile                                                      *)
(***************************************************************************)
\* JSON.parse of the languages text of the body.
JSONparse(text) == IF text = "[]" THEN {} ELSE {"en"}

\* await prisma.user.update(updateData): languages is written when the body
\* has it and the caller is a freelancer.  A caller without an account has
\* no token (401).
UpdateProfile(r, caller, text, k) ==
    /\ reqs[r] = Idle
    /\ k = IF users[caller].role = "" THEN 401 ELSE 200
    /\ users' = IF k = 200 /\ text # "" /\ users[caller].role = "FREELANCER"
                THEN [users EXCEPT ![caller].languages = JSONparse(text)]
                ELSE users
    /\ UNCHANGED <<projects, bids, transactions, reviews, reqs>>

(***************************************************************************)
(* Requests.  o says whether the response of a step is kept in last.       *)
(***************************************************************************)
Out(o, op, caller, pid, id, k) ==
    /\ last' = IF o /\ k # 0
               THEN [op |-> op, caller |-> caller, pid |-> pid, id |-> id, code |-> k]
               ELSE NoResp
    /\ settled' = IF op \in {"release", "refund"} /\ k = 200
                  THEN settled \cup {id}
                  ELSE settled

\* The response of a handler resumed in slot r.
OutOf(o, r, k) == Out(o, reqs[r].op, reqs[r].caller, reqs[r].pid, reqs[r].id, k)

ProjectCreation(r, o) ==
    \E c \in UserIds, k \in Codes :
        CreateProject(r, c, k) /\ Out(o, "createProject", c, 0, 0, k)

Submit(r, o) ==
    \/ \E in \in SubmitInputs, p \in ProjectIds, k \in Codes :
          SubmitFindProject(r, in[1], p, in[2], k) /\ Out(o, "submit", in[1], p, 0, k)
    \/ \E k \in Codes : SubmitFindBid(r, k) /\ OutOf(o, r, k)
    \/ \E k \in Codes : SubmitCreate(r, k) /\ OutOf(o, r, k)

Accept(r, o) ==
    \/ \E c \in UserIds, b \in BidIds, k \in Codes :
          AcceptFindBid(r, c, b, k) /\ Out(o, "accept", c, 0, b, k)
    \/ \E k \in Codes : AcceptTransaction(r, k) /\ OutOf(o, r, k)

Reject(r, o) ==
    \/ \E c \in UserIds, b \in BidIds, k \in Codes :
          RejectFindBid(r, c, b, k) /\ Out(o, "reject", c, 0, b, k)
    \/ \E k \in Codes : RejectUpdate(r, k) /\ OutOf(o, r, k)

Update(r, o) ==
    \/ \E c \in UserIds, p \in ProjectIds, s \in ProjectStatuses \cup {""}, k \in Codes :
          UpdateFindProject(r, c, p, s, k) /\ Out(o, "update", c, p, 0, k)
    \/ \E k \in Codes : UpdateProject(r, k) /\ OutOf(o, r, k)

PaymentIntent(r, o) ==
    \E c \in UserIds, p \in ProjectIds, k \in Codes :
        CreateIntent(r, c, p, k) /\ Out(o, "createIntent", c, p, 0, k)

Confirm(r, o) ==
    \E in \in ConfirmInputs, p \in ProjectIds,
       i \in IntentStatuses, a \in IntentAmounts, k \in Codes :
        ConfirmPayment(r, in[1], p, in[2], i, a, k) /\ Out(o, "confirm", in[1], p, 0, k)

Release(r, o) ==
    \/ \E c \in UserIds, t \in TxIds, k \in Codes :
          ReleaseFind(r, c, t, k) /\ Out(o, "release", c, 0, t, k)
    \/ \E k \in Codes : ReleaseUpdateTransaction(r, k) /\ OutOf(o, r, k)
    \/ \E k \in Codes : ReleaseUpdateProject(r, k) /\ OutOf(o, r, k)

Refund(r, o) ==
    \/ \E c \in UserIds, t \in TxIds, k \in Codes :
          RefundFind(r, c, t, k) /\ Out(o, "refund", c, 0, t, k)
    \/ \E k \in Codes : RefundUpdateTransaction(r, k) /\ OutOf(o, r, k)
    \/ \E k \in Codes : RefundUpdateProject(r, k) /\ OutOf(o, r, k)

Review(r, o) ==
    \/ \E in \in ReviewInputs, p \in ProjectIds \cup ExistingProjects, k \in Codes :
          /\ ReviewFindProject(r, in[1], p, in[2], in[3], k)
          /\ Out(o, "review", in[1], p, 0, k)
    \/ \E k \in Codes : ReviewFindReview(r, k) /\ OutOf(o, r, k)
    \/ \E k \in Codes : ReviewCreate(r, k) /\ OutOf(o, r, k)
    \/ \E k \in Codes : ReviewFindMany(r, k) /\ OutOf(o, r, k)
    \/ \E k \in Codes : ReviewUpdateUser(r, k) /\ OutOf(o, r, k)

Edit(r, o) ==
    \/ \E in \in EditInputs, v \in ReviewIds, k \in Codes :
          EditFind(r, in[1], v, in[2], k) /\ Out(o, "edit", in[1], 0, v, k)
    \/ \E k \in Codes : EditUpdate(r, k) /\ OutOf(o, r, k)
    \/ \E k \in Codes : EditFindMany(r, k) /\ OutOf(o, r, k)
    \/ \E k \in Codes : EditUpdateUser(r, k) /\ OutOf(o, r, k)

Register(r, o) ==
    \/ \E in \in RegisterInputs, k \in Codes :
          RegisterFind(r, in[1], in[2], in[3], k) /\ Out(o, "register", in[1], 0, 0, k)
    \/ \E k \in Codes : RegisterCreate(r, k) /\ OutOf(o, r, k)

Profile(r, o) ==
    \E in \in ProfileInputs, k \in Codes :
        UpdateProfile(r, in[1], in[2], k) /\ Out(o, "profile", in[1], 0, 0, k)

(***************************************************************************)
(* Spec: every operation of the ledger, one request at a time (slot r1);   *)
(* the tables between the awaits of a request are states of the model.     *)
(***************************************************************************)
Next ==
    \/ ProjectCreation("r1", FALSE)
    \/ Submit("r1", FALSE)
    \/ Accept("r1", FALSE)
    \/ Reject("r1", FALSE)
    \/ Update("r1", FALSE)
    \/ PaymentIntent("r1", FALSE)
    \/ Confirm("r1", FALSE)
    \/ Release("r1", FALSE)
    \/ Refund("r1", FALSE)

Spec == Init /\ [][Next]_vars

(***************************************************************************)
(* SpecBids: the bid ledger with two requests in flight and the responses  *)
(* observed.                                                               *)
(***************************************************************************)
NextBids ==
    \/ \E r \in Slots : ProjectCreation(r, TRUE)
    \/ \E r \in Slots : Submit(r, TRUE)
    \/ \E r \in Slots : Accept(r, TRUE)
    \/ \E r \in Slots : Reject(r, TRUE)

SpecBids == Init /\ [][NextBids]_vars

(***************************************************************************)
(* SpecEscrow: acceptance and the escrow ledger, one request at a time,    *)
(* with the responses observed.                                            *)
(***************************************************************************)
NextEscrow ==
    \/ ProjectCreation("r1", TRUE)
    \/ Submit("r1", TRUE)
    \/ Accept("r1", TRUE)
    \/ PaymentIntent("r1", TRUE)
    \/ Confirm("r1", TRUE)
    \/ Release("r1", TRUE)
    \/ Refund("r1", TRUE)

SpecEscrow == Init /\ [][NextEscrow]_vars

(***************************************************************************)
(* SpecLedger: the bid ledger and the project update, one request at a     *)
(* time, with the responses observed.                                      *)
(***************************************************************************)
NextLedger ==
    \/ ProjectCreation("r1", TRUE)
    \/ Submit("r1", TRUE)
    \/ Accept("r1", TRUE)
    \/ Reject("r1", TRUE)
    \/ Update("r1", TRUE)

SpecLedger == Init /\ [][NextLedger]_vars

(***************************************************************************)
(* SpecReviews: the review ledger with two requests in flight and the      *)
(* responses to the review requests observed, over the life of a project   *)
(* from its creation.                                                      *)
(***************************************************************************)
NextReviews ==
    \/ ProjectCreation("r1", FALSE)
    \/ Submit("r1", FALSE)
    \/ Accept("r1", FALSE)
    \/ Update("r1", FALSE)
    \/ \E r \in Slots : Reject(r, FALSE)
    \/ \E r \in Slots : Review(r, TRUE)

SpecReviews == Init /\ [][NextReviews]_vars

(***************************************************************************)
(* SpecRatings: review creation and review update, one request at a time,  *)
(* from the state in which client c1 has two COMPLETED projects: f1's bid  *)
(* was accepted on project 1 and f2's on project 2, which left one escrow  *)
(* row each.                                                               *)
(***************************************************************************)
InitRatings ==
    /\ users = Registered
    /\ projects = <<[clientId |-> "c1", status |-> "COMPLETED"],
                    [clientId |-> "c1", status |-> "COMPLETED"]>>
    /\ bids = <<[projectId |-> 1, freelancerId |-> "f1", bidAmount |-> 450,
                 status |-> "ACCEPTED"],
                [projectId |-> 2, freelancerId |-> "f2", bidAmount |-> 480,
                 status |-> "ACCEPTED"]>>
    /\ transactions = <<[projectId |-> 1, clientId |-> "c1", freelancerId |-> "f1",
                         amount |-> 450, status |-> "PENDING"],
                        [projectId |-> 2, clientId |-> "c1", freelancerId |-> "f2",
                         amount |-> 480, status |-> "PENDING"]>>
    /\ reviews = <<>>
    /\ reqs = [r \in Slots |-> Idle]
    /\ last = NoResp
    /\ settled = {}

NextRatings ==
    \/ Review("r1", FALSE)
    \/ Edit("r1", FALSE)

SpecRatings == InitRatings /\ [][NextRatings]_vars

(***************************************************************************)
(* SpecRatingsRace: as SpecRatings, with two requests in flight.           *)
(***************************************************************************)
NextRatingsRace ==
    \/ \E r \in Slots : Review(r, FALSE)
    \/ \E r \in Slots : Edit(r, FALSE)

SpecRatingsRace == InitRatings /\ [][NextRatingsRace]_vars

(***************************************************************************)
(* SpecSettle: a project from its creation to the settlement of its escrow *)
(* row, with two release or refund requests in flight and their responses  *)
(* observed.                                                               *)
(***************************************************************************)
NextSettle ==
    \/ ProjectCreation("r1", FALSE)
    \/ Submit("r1", FALSE)
    \/ Accept("r1", FALSE)
    \/ \E r \in Slots : Release(r, TRUE)
    \/ \E r \in Slots : Refund(r, TRUE)

SpecSettle == Init /\ [][NextSettle]_vars

(***************************************************************************)
(* SpecAccounts: registration, profile update, project creation and bid    *)
(* submission, one request at a time, from the empty database.  A request  *)
(* of a caller without an account is refused before its handler runs.      *)
(***************************************************************************)
NoAccount == [role |-> "", rating |-> 0, languages |-> {}]

InitAccounts ==
    /\ users = [u \in UserIds |-> NoAccount]
    /\ projects = <<>>
    /\ bids = <<>>
    /\ transactions = <<>>
    /\ reviews = <<>>
    /\ reqs = [r \in Slots |-> Idle]
    /\ last = NoResp
    /\ settled = {}

NextAccounts ==
    \/ Register("r1", TRUE)
    \/ Profile("r1", TRUE)
    \/ ProjectCreation("r1", TRUE)
    \/ Submit("r1", TRUE)

SpecAccounts == InitAccounts /\ [][NextAccounts]_vars

(***************************************************************************)
(* Claims                                                                  *)
(***************************************************************************)
Owner(p) == projects[p].clientId

\* C1: in every reachable state each project has at most one bid with status
\* ACCEPTED.
C1_AtMostOneAccepted ==
    \A p \in ExistingProjects : Cardinality(AcceptedOf(p)) <= 1

\* An accept of another bid has passed its checks (the owner set the project
\* back to POSTED) while the project already has an ACCEPTED bid.
C1_Witness ==
    \E r \in Slots :
        /\ reqs[r].op = "accept" /\ reqs[r].pc = "transaction"
        /\ AcceptedOf(reqs[r].pid) \ {reqs[r].id} # {}

\* C2: of two accepts of different bids of one POSTED project that both passed
\* their checks, at most one succeeds: the one whose block runs after the
\* other's commit answers 500 and writes nothing.
C2_RivalAcceptFails ==
    [][\A r \in Slots :
          (reqs[r].op = "accept" /\ reqs[r].rival /\ reqs'[r] = Idle)
              => (last'.code = 500 /\ UNCHANGED db)]_vars

\* The second of two racing accepts has failed; the other bid is ACCEPTED.
C2_Witness ==
    /\ last.op = "accept" /\ last.code = 500
    /\ \E b \in AcceptedOf(last.pid) : b # last.id

\* C3: immediately after a successful accept exactly the target bid is
\* ACCEPTED, every other bid of the project is REJECTED, the project is
\* IN_PROGRESS and the project has exactly one transaction, PENDING, for the
\* accepted bid's amount.
C3_AcceptPostcondition ==
    (last.op = "accept" /\ last.code = 200) =>
        /\ AcceptedOf(last.pid) = {last.id}
        /\ \A x \in BidsOf(last.pid) \ {last.id} : bids[x].status = "REJECTED"
        /\ projects[last.pid].status = "IN_PROGRESS"
        /\ Cardinality(TxsOf(last.pid)) = 1
        /\ \A t \in TxsOf(last.pid) :
              /\ transactions[t].status = "PENDING"
              /\ transactions[t].amount = bids[last.id].bidAmount

\* C4: the four writes of accept are all or nothing: an accept that fails
\* leaves every table as it was, and a step that makes a bid ACCEPTED also
\* sets the project IN_PROGRESS, rejects the PENDING siblings and inserts the
\* escrow row.
C4_AllOrNothing ==
    [][/\ (last'.op = "accept" /\ last'.code # 200) => UNCHANGED db
       /\ \A b \in ExistingBids :
             (bids[b].status # "ACCEPTED" /\ bids'[b].status = "ACCEPTED") =>
                /\ projects'[bids[b].projectId].status = "IN_PROGRESS"
                /\ transactions' = Append(transactions, EscrowOf(b))
                /\ \A x \in BidsOf(bids[b].projectId) \ {b} :
                      bids[x].status = "PENDING" => bids'[x].status = "REJECTED"
       /\ \A x \in Slots :
             (reqs[x].op = "accept" /\ reqs'[x] = Idle /\ last'.code # 200)
                 => UNCHANGED db]_vars

\* An accept failed at the insert of the escrow row, and the bid it had set
\* ACCEPTED inside the block is REJECTED as before.
C4_Witness ==
    /\ last.op = "accept" /\ last.code = 500
    /\ bids[last.id].status = "REJECTED"
    /\ projects[last.pid].status = "IN_PROGRESS"

\* C5: there is at most one bid per (projectId, bidderId) pair.
C5_OneBidPerPair ==
    \A x, y \in ExistingBids :
        (bids[x].projectId = bids[y].projectId
            /\ bids[x].freelancerId = bids[y].freelancerId) => x = y

\* C6: no bid's bidder is the owner of the bid's project, and a submit by the
\* owner of the project fails.
C6_NoBidOnOwnProject ==
    /\ \A b \in ExistingBids : bids[b].freelancerId # Owner(bids[b].projectId)
    /\ (last.op = "submit" /\ last.pid \in ExistingProjects
           /\ last.caller = Owner(last.pid)) => last.code \in {400, 403}

\* The owner of a POSTED project has tried to bid on it.
C6_Witness ==
    /\ last.op = "submit" /\ last.pid \in ExistingProjects
    /\ last.caller = Owner(last.pid)
    /\ projects[last.pid].status = "POSTED"
    /\ last.code \in {400, 403}

\* C7: release succeeds once: after a release or refund of a transaction was
\* answered 200, no release or refund of that transaction passes the status
\* check again.
C7_SettleOnce ==
    \A r \in Slots :
        reqs[r].op \in {"release", "refund"} => reqs[r].id \notin settled

\* C8: a RELEASED transaction belongs to a PAID project.
C8_ReleasedImpliesPaid ==
    \A t \in ExistingTxs :
        transactions[t].status = "RELEASED"
            => projects[transactions[t].projectId].status = "PAID"

\* C9: a REFUNDED transaction belongs to a CANCELLED project.
C9_RefundedImpliesCancelled ==
    \A t \in ExistingTxs :
        transactions[t].status = "REFUNDED"
            => projects[transactions[t].projectId].status = "CANCELLED"

\* C10: each project has at most one transaction.
C10_OneTransactionPerProject ==
    \A p \in ExistingProjects : Cardinality(TxsOf(p)) <= 1

\* The place of a status in the order POSTED, IN_PROGRESS, COMPLETED, PAID
\* (CANCELLED is beside the order).
Rank(s) ==
    CASE s = "POSTED" -> 1
      [] s = "IN_PROGRESS" -> 2
      [] s = "COMPLETED" -> 3
      [] s = "PAID" -> 4
      [] OTHER -> 0

\* C11: a project's status only moves forward: a step that changes it starts
\* from a status that is neither PAID nor CANCELLED and either cancels the
\* project or moves it up in the order POSTED, IN_PROGRESS, COMPLETED, PAID.
C11_StatusMovesForward ==
    [][\A p \in ExistingProjects :
          projects'[p].status # projects[p].status =>
              /\ projects[p].status \notin {"PAID", "CANCELLED"}
              /\ \/ projects'[p].status = "CANCELLED"
                 \/ Rank(projects'[p].status) > Rank(projects[p].status)]_vars

\* C12: a project whose status is not POSTED has exactly one ACCEPTED bid.
C12_LeftPostedHasAcceptedBid ==
    \A p \in ExistingProjects :
        projects[p].status # "POSTED" => Cardinality(AcceptedOf(p)) = 1

\* C13: a bid is created only while its project is POSTED and is created
\* PENDING, a submit answered while the project is not POSTED fails and
\* creates no bid, and no PENDING bid exists on a project that has left POSTED.
C13_BidOnlyOnPosted ==
    [][/\ Len(bids') > Len(bids) =>
             /\ projects[bids'[Len(bids')].projectId].status = "POSTED"
             /\ bids'[Len(bids')].status = "PENDING"
       /\ (last'.op = "submit" /\ last'.pid \in ExistingProjects
              /\ projects[last'.pid].status # "POSTED") =>
             (last'.code \in {400, 403} /\ bids' = bids)
       /\ \A b \in DOMAIN bids' :
             bids'[b].status = "PENDING" =>
                 projects'[bids'[b].projectId].status = "POSTED"]_vars

\* C14: an accept by a caller who is not the owner of the bid's project is
\* answered 403, an accept by the owner on a project that is not POSTED is
\* answered 400, and neither changes a bid, a project or a transaction.
C14_AcceptRefused ==
    [][(last'.op = "accept" /\ last'.id \in ExistingBids) =>
          /\ last'.caller # Owner(bids[last'.id].projectId) =>
                (last'.code = 403 /\ UNCHANGED db)
          /\ projects[bids[last'.id].projectId].status # "POSTED" =>
                (last'.code \in {400, 403} /\ UNCHANGED db)
          /\ (last'.caller = Owner(bids[last'.id].projectId)
                 /\ projects[bids[last'.id].projectId].status # "POSTED") =>
                last'.code = 400]_vars

\* The owner's accept was refused with 400 on a project that already has an
\* ACCEPTED bid and is not POSTED.
C14_Witness ==
    /\ last.op = "accept" /\ last.code = 400
    /\ last.id \in ExistingBids
    /\ last.caller = Owner(bids[last.id].projectId)
    /\ projects[bids[last.id].projectId].status # "POSTED"
    /\ AcceptedOf(bids[last.id].projectId) # {}

\* C15: a reject by a caller who does not own the bid's project is answered
\* 403 and a reject by the owner of a bid that is not PENDING is answered 400,
\* both without any change; a reject that succeeds sets that bid REJECTED and
\* changes nothing else.
C15_RejectGuards ==
    [][(last'.op = "reject" /\ last'.id \in ExistingBids) =>
          /\ last'.caller # Owner(bids[last'.id].projectId) => last'.code = 403
          /\ (last'.caller = Owner(bids[last'.id].projectId)
                 /\ bids[last'.id].status # "PENDING") => last'.code = 400
          /\ last'.code # 200 => UNCHANGED db
          /\ last'.code = 200 =>
                /\ bids' = [bids EXCEPT ![last'.id].status = "REJECTED"]
                /\ UNCHANGED <<users, projects, transactions, reviews>>]_vars

\* A reject succeeded while another bid of the project is PENDING.
C15_Witness ==
    /\ last.op = "reject" /\ last.code = 200
    /\ bids[last.id].status = "REJECTED"
    /\ \E x \in BidsOf(last.pid) \ {last.id} : bids[x].status = "PENDING"

\* C16: after a successful confirm the transaction of the project and the
\* caller is PENDING and its amount is the amount the processor confirmed,
\* whether the confirm created the row or the row already existed.
C16_ConfirmedAmount ==
    (last.op = "confirm" /\ last.code = 200) =>
        /\ projectId_clientId(last.pid, last.caller) # {}
        /\ \A t \in projectId_clientId(last.pid, last.caller) :
              /\ transactions[t].status = "PENDING"
              /\ transactions[t].amount \in IntentAmounts

\* C17: a confirm by a caller who is not the owner of the named project
\* neither creates nor modifies a transaction.
C17_ConfirmOwnerOnly ==
    [][(last'.op = "confirm" /\ last'.pid \in ExistingProjects
           /\ last'.caller # Owner(last'.pid)) =>
          transactions' = transactions]_vars

\* C18: a review is created only while its project is COMPLETED or PAID, and
\* a review answered while the project is POSTED, IN_PROGRESS or CANCELLED is
\* answered 400, creates no review and changes no rating.
C18_ReviewOnlyWhenCompleted ==
    [][/\ Len(reviews') > Len(reviews) =>
             projects[reviews'[Len(reviews')].projectId].status
                 \in {"COMPLETED", "PAID"}
       /\ (last'.op = "review" /\ last'.pid \in ExistingProjects
              /\ projects[last'.pid].status \in {"POSTED", "IN_PROGRESS", "CANCELLED"}) =>
             (last'.code = 400 /\ reviews' = reviews /\ users' = users)]_vars

\* Whether caller is the owner of project p or the freelancer of an ACCEPTED
\* bid on it.
Participant(caller, p) ==
    \/ caller = Owner(p)
    \/ \E b \in AcceptedOf(p) : bids[b].freelancerId = caller

\* C19: every review's reviewer is the owner of the reviewed project or the
\* freelancer whose bid on it is ACCEPTED, and a create by any other caller
\* fails (403, or 400 where the project's status is refused first) and
\* creates no review.
C19_ReviewerIsParticipant ==
    [][/\ \A v \in DOMAIN reviews' :
             \/ reviews'[v].reviewerId = projects'[reviews'[v].projectId].clientId
             \/ \E b \in DOMAIN bids' :
                   /\ bids'[b].projectId = reviews'[v].projectId
                   /\ bids'[b].status = "ACCEPTED"
                   /\ bids'[b].freelancerId = reviews'[v].reviewerId
       /\ (last'.op = "review" /\ last'.pid \in ExistingProjects
              /\ ~Participant(last'.caller, last'.pid)) =>
             (last'.code \in {400, 403} /\ reviews' = reviews)]_vars

\* C20: there is at most one review per (projectId, reviewerId, revieweeId)
\* triple.
C20_OneReviewPerTriple ==
    \A v, w \in ExistingReviews :
        (/\ reviews[v].projectId = reviews[w].projectId
         /\ reviews[v].reviewerId = reviews[w].reviewerId
         /\ reviews[v].revieweeId = reviews[w].revieweeId) => v = w

\* C21: with one request at a time, whenever no request is in progress the
\* stored rating of every user who has received reviews is the mean of the
\* ratings received, rounded to one decimal with a half rounded up (in
\* tenths: r - 1/2 < 10 * sum / n <= r + 1/2 fails only at the half, which
\* goes up), and every stored rating lies between 0 and 5.
C21_RatingIsRoundedMean ==
    reqs["r1"] = Idle =>
        \A u \in UserIds :
            /\ users[u].rating \in 0..50
            /\ userReviews(u) # {} =>
                  /\ 2 * (users[u].rating * Cardinality(userReviews(u))
                            - 10 * SumRatings(userReviews(u)))
                        <= Cardinality(userReviews(u))
                  /\ 2 * (10 * SumRatings(userReviews(u))
                            - users[u].rating * Cardinality(userReviews(u)))
                        < Cardinality(userReviews(u))

\* c1 has received the ratings 5, 4 and 5 and the stored rating is 4.7.
C21_Witness ==
    /\ reqs["r1"] = Idle
    /\ Cardinality(userReviews("c1")) = 3
    /\ SumRatings(userReviews("c1")) = 14
    /\ users["c1"].rating = 47

\* C22: with review creates and rating updates of one reviewee in flight at
\* the same time, once every request has finished the stored rating of each
\* reviewed user is the rounded mean of the ratings that user received.
C22_NoStaleAggregate ==
    (\A r \in Slots : reqs[r] = Idle) =>
        \A u \in UserIds :
            userReviews(u) # {} =>
                users[u].rating =
                    RoundedMean(SumRatings(userReviews(u)), Cardinality(userReviews(u)))


\* C23: in every reachable state every FREELANCER account that has at least
\* one bid has a non-empty set of languages.
C23_BiddersHaveLanguages ==
    \A b \in ExistingBids :
        users[bids[b].freelancerId].role = "FREELANCER"
            => users[bids[b].freelancerId].languages # {}


\* C24: the bid statuses ACCEPTED and REJECTED are terminal: a step that makes
\* a bid ACCEPTED finds it PENDING, and a REJECTED bid keeps its status.
C24_BidStatusTerminal ==
    [][\A b \in ExistingBids :
          /\ (bids[b].status # "ACCEPTED" /\ bids'[b].status = "ACCEPTED")
                 => bids[b].status = "PENDING"
          /\ bids[b].status = "REJECTED" => bids'[b].status = "REJECTED"]_vars


\* C25: the escrow statuses RELEASED and REFUNDED are terminal: no step
\* changes the status of a transaction that is RELEASED or REFUNDED.
C25_EscrowStatusTerminal ==
    [][\A t \in ExistingTxs :
          transactions[t].status \in {"RELEASED", "REFUNDED"}
              => transactions'[t].status = transactions[t].status]_vars


\* C26: of the releases and refunds of one PENDING transaction that run at
\* the same time at most one is answered 200, and once all of them have
\* finished the transaction and its project agree: RELEASED with PAID or
\* REFUNDED with CANCELLED.
C26_OneSettlementWins ==
    [][/\ (last'.op \in {"release", "refund"} /\ last'.code = 200)
              => last'.id \notin settled
       /\ (\A r \in Slots : reqs'[r] = Idle) =>
              \A t \in DOMAIN transactions' :
                 /\ transactions'[t].status = "RELEASED"
                        => projects'[transactions'[t].projectId].status = "PAID"
                 /\ transactions'[t].status = "REFUNDED"
                        => projects'[transactions'[t].projectId].status = "CANCELLED"]_vars


\* C27: in every reachable state every transaction of a project has the
\* project's owner as payer and the freelancer of an ACCEPTED bid of the
\* project as payee.
C27_EscrowParties ==
    \A t \in ExistingTxs :
        /\ transactions[t].projectId \in ExistingProjects
        /\ transactions[t].clientId = Owner(transactions[t].projectId)
        /\ \E b \in AcceptedOf(transactions[t].projectId) :
               bids[b].freelancerId = transactions[t].freelancerId


\* C28: in every reachable state a project with status PAID has a
\* transaction with status RELEASED.
C28_PaidHasReleasedEscrow ==
    \A p \in ExistingProjects :
        projects[p].status = "PAID" =>
            \E t \in TxsOf(p) : transactions[t].status = "RELEASED"


\* C29: every review's reviewee is the other participant of the reviewed
\* project: the freelancer of an ACCEPTED bid when the reviewer is the owner,
\* the owner otherwise.
C29_RevieweeIsOtherParticipant ==
    \A v \in ExistingReviews :
        IF reviews[v].reviewerId = Owner(reviews[v].projectId)
        THEN \E b \in AcceptedOf(reviews[v].projectId) :
                bids[b].freelancerId = reviews[v].revieweeId
        ELSE reviews[v].revieweeId = Owner(reviews[v].projectId)


\* C30: the payment path stays executable after acceptance: once the owner's
\* accept of a bid has been answered 200, a createIntent request of the owner
\* for that project passes its checks.
C30_IntentAfterAccept ==
    (last.op = "accept" /\ last.code = 200) =>
        CreateIntentCheck(last.caller, last.pid) = 200

====
